---- MODULE Spec2Model ----
(***************************************************************************)
(* Model of phosphor-fan-presence control/json:                            *)
(*   - actions/action.hpp : ActionBase, ActionFactory, ActionRegister       *)
(*   - fan.hpp            : Fan configuration entity                        *)
(*                                                                         *)
(* Strings that the code compares or concatenates (action names, the list  *)
(* of available actions) are sequences of character codes, ordered as      *)
(* std::string orders them.  Two specifications share the variables:       *)
(* Spec drives the action registry, FanSpec drives the Fan entity; the two *)
(* components share no state in the code.                                  *)
(***************************************************************************)
EXTENDS Integers, Sequences, FiniteSets, TLC

VARIABLES
    phase,        \* "static_init" | "main" | "terminated" | "hung" | "crashed"
    linked,       \* behaviour types linked into the binary
    initialised,  \* types whose ActionRegister<T>::registered initialiser ran
    registered,   \* ActionRegister<T>::registered, per type
    actions,      \* ActionFactory::actions : name -> creation function
    instances,    \* action objects handed out, each owned by its caller
    last,         \* the last call on the factory / an action and its outcome
    regCalls,     \* history: regAction calls made by ActionRegister<T>, per type
    resolved,     \* history: getAction has been called
    directRegs,   \* number of direct regAction calls so far (bounded)
    ctorFailed,   \* history: names whose resolution ended in a constructor error
    plan,         \* a list of registrations to perform, in any order
    todo,         \* the positions of plan not performed yet
    collided,     \* history: a registration of plan ended in a collision
    callers,      \* concurrent callers of getAction: position, arguments, results
    fans,         \* Fan objects that exist
    fanFrags,     \* history: the JSON fragment each Fan was built from
    lastFan       \* the last call on Fan and its outcome

vars == <<phase, linked, initialised, registered, actions, instances, last,
          regCalls, resolved, directRegs, ctorFailed, plan, todo, collided,
          callers, fans, fanFrags, lastFan>>

regVars == <<phase, linked, initialised, registered, actions, instances, last,
             regCalls, resolved, directRegs, ctorFailed>>

fanVars == <<fans, fanFrags, lastFan>>

ordVars == <<plan, todo, collided>>

concVars == <<callers>>

----------------------------------------------------------------------------
(* Bounds *)

MaxDirectRegs == 2
MaxInstances == 2
MaxFans == 1
MaxCount == 2      \* history counters stop counting here
MaxPlan == 3       \* registrations in a plan

----------------------------------------------------------------------------
(* Strings *)

\* "" , "a", "A", "a, b"
EmptyStr == <<>>
Str_a == <<97>>
Str_A == <<65>>
Str_a_b == <<97, 44, 32, 98>>
Separator == <<44, 32>>

NameUniverse == {EmptyStr, Str_a, Str_A, Str_a_b}

\* what a read of the value of the map's end() node may yield
GarbageStrings == {EmptyStr, <<63>>}

StrLessNoCase(s, t) ==
    LET lower(c) == IF c >= 65 /\ c <= 90 THEN c + 32 ELSE c
        l(x) == [i \in 1..Len(x) |-> lower(x[i])]
        RECURSIVE less(_, _)
        less(x, y) ==
            IF y = <<>> THEN FALSE
            ELSE IF x = <<>> THEN TRUE
            ELSE IF Head(x) < Head(y) THEN TRUE
            ELSE IF Head(y) < Head(x) THEN FALSE
            ELSE less(Tail(x), Tail(y))
    IN less(l(s), l(t))

\* std::less<std::string>: lexicographic on character codes
RECURSIVE StrLess(_, _)
StrLess(s, t) ==
    IF t = <<>> THEN FALSE
    ELSE IF s = <<>> THEN TRUE
    ELSE IF Head(s) < Head(t) THEN TRUE
    ELSE IF Head(t) < Head(s) THEN FALSE
    ELSE StrLess(Tail(s), Tail(t))

----------------------------------------------------------------------------
(* Behaviour types *)

Types == {"T1", "T2"}

\* T::name
TypeName(T) == IF T = "T1" THEN Str_a ELSE Str_A

\* the JSON object handed to an action's constructor
ActionJson == {"ok", "malformed"}

\* createAction<T> is stored in the registry; it is identified by T
createActionOf(T) == T

----------------------------------------------------------------------------
(* std::map<std::string, ...> *)

End == "end()"

\* std::map::lower_bound, used as a faulty find
FindLowerBound(m, name) ==
    LET ge == {k \in DOMAIN m : ~StrLess(k, name)}
    IN IF ge = {} THEN End
       ELSE CHOOSE k \in ge : \A j \in ge : ~StrLess(j, k)

\* std::map::find: the key equivalent to name under the comparator, or end()
Find(m, name) ==
    LET eq == {k \in DOMAIN m : ~StrLess(k, name) /\ ~StrLess(name, k)}
    IN IF eq = {} THEN End ELSE CHOOSE k \in eq : TRUE

\* actions[name] = f
MapAssign(m, name, f) ==
    LET it == Find(m, name)
    IN IF it = End
       THEN [k \in DOMAIN m \cup {name} |-> IF k = name THEN f ELSE m[k]]
       ELSE [m EXCEPT ![it] = f]

\* the keys in iteration order, begin() .. end()
RECURSIVE KeysInOrder(_)
KeysInOrder(keys) ==
    IF keys = {} THEN <<>>
    ELSE LET first == CHOOSE k \in keys : \A j \in keys : ~StrLess(j, k)
         IN <<first>> \o KeysInOrder(keys \ {first})

----------------------------------------------------------------------------
(* ActionBase *)

ActionBase_NoName(name) == [name |-> EmptyStr]

\* explicit ActionBase(const std::string& name) : _name(name)
ActionBase(name) == [name |-> name]

\* getName()
getName(inst) == inst.name

\* the constructor of a concrete behaviour type T: T(jsonObj) : ActionBase(T::name)
ConcreteCtor(T, json) ==
    IF json = "malformed"
    THEN [ok |-> FALSE]
    ELSE [ok |-> TRUE,
          obj |-> [type |-> T, name |-> ActionBase(TypeName(T)).name]]

\* createAction<T>(jsonObj): std::make_unique<T>(jsonObj)
createAction(T, json) == ConcreteCtor(T, json)

makeUnique_Cached(objs, obj) ==
    IF \E i \in DOMAIN objs : objs[i] = obj
    THEN [objs |-> objs, ptr |-> CHOOSE i \in DOMAIN objs : objs[i] = obj]
    ELSE [objs |-> Append(objs, obj), ptr |-> Len(objs) + 1]

\* std::make_unique: a new object, apart from every object that exists, and
\* the only pointer to it; objs are the objects that exist
makeUnique(objs, obj) == [objs |-> Append(objs, obj), ptr |-> Len(objs) + 1]

----------------------------------------------------------------------------
(* ActionFactory *)

regAction_NoThrow(acts, T, name) ==
    LET it == Find(acts, name)
    IN IF it = End
       THEN [actions |-> MapAssign(acts, name, createActionOf(T)), ret |-> "true"]
       ELSE [actions |-> acts, ret |-> "true"]

regAction_Overwrite(acts, T, name) ==
    LET it == Find(acts, name)
    IN IF it = End
       THEN [actions |-> MapAssign(acts, name, createActionOf(T)), ret |-> "true"]
       ELSE [actions |-> MapAssign(acts, name, createActionOf(T)),
             ret |-> "collision"]

\* ActionFactory::regAction<T>(name): the registry afterwards and the outcome,
\* "true" or "collision" (std::runtime_error "Actions with the same name found")
regAction(acts, T, name) ==
    LET it == Find(acts, name)
    IN IF it = End
       THEN [actions |-> MapAssign(acts, name, createActionOf(T)), ret |-> "true"]
       ELSE [actions |-> acts, ret |-> "collision"]

\* std::accumulate(first, last, init, list + ", " + act.first)
RECURSIVE Accumulate(_, _)
Accumulate(keys, list) ==
    IF keys = <<>> THEN list
    ELSE Accumulate(Tail(keys), list \o Separator \o Head(keys))

getActionOutcomes_Swallow(acts, name, json) ==
    LET it == Find(acts, name)
        keys == KeysInOrder(DOMAIN acts)
    IN IF it # End /\ createAction(acts[it], json).ok
       THEN {[outcome |-> "instance", ctor |-> acts[it],
              obj |-> createAction(acts[it], json).obj, msg |-> EmptyStr]}
       ELSE IF DOMAIN acts # {}
            THEN {[outcome |-> "unsupported", ctor |-> "none",
                   msg |-> Accumulate(Tail(keys), Head(keys))]}
            ELSE {[outcome |-> "hang", ctor |-> "none", msg |-> EmptyStr],
                  [outcome |-> "crash", ctor |-> "none", msg |-> EmptyStr]}

\* What ActionFactory::getAction does with the iterator find() gave it, on
\* registry acts: the possible outcomes.
\* On a miss with an empty registry the code dereferences and increments
\* actions.begin() = actions.end(): what follows is not defined, and the
\* outcomes are a hang (incrementing end()), a crash (reading its value) or a
\* list made of whatever was read.
getActionFrom(acts, it, json) ==
    IF it # End
    THEN LET r == createAction(acts[it], json)
         IN IF r.ok
            THEN {[outcome |-> "instance", ctor |-> acts[it], obj |-> r.obj,
                   msg |-> EmptyStr]}
            ELSE {[outcome |-> "ctor_error", ctor |-> acts[it],
                   msg |-> EmptyStr]}
    ELSE IF DOMAIN acts # {}
         THEN LET keys == KeysInOrder(DOMAIN acts)
              IN {[outcome |-> "unsupported", ctor |-> "none",
                   msg |-> Accumulate(Tail(keys), Head(keys))]}
         ELSE {[outcome |-> "hang", ctor |-> "none", msg |-> EmptyStr],
               [outcome |-> "crash", ctor |-> "none", msg |-> EmptyStr]}
              \cup {[outcome |-> "unsupported", ctor |-> "none", msg |-> g] :
                    g \in GarbageStrings}

getActionFind_Subscript(acts, name) ==
    [it |-> name,
     actions |-> IF Find(acts, name) = End THEN MapAssign(acts, name, "empty")
                 ELSE acts]

\* auto it = actions.find(name): the iterator, and the registry after the call
getActionFind(acts, name) == [it |-> Find(acts, name), actions |-> acts]

\* The outcomes of ActionFactory::getAction(name, jsonObj) on registry acts.
getActionOutcomes(acts, name, json) ==
    getActionFrom(acts, getActionFind(acts, name).it, json)

----------------------------------------------------------------------------
(* The record of the last call *)

NoCall == [op |-> "none", via |-> "none", type |-> "none", name |-> EmptyStr,
           json |-> "none", outcome |-> "none", ctor |-> "none",
           msg |-> EmptyStr, inst |-> 0]

----------------------------------------------------------------------------
(* Initial state *)

Callers == {"c1", "c2"}

\* a caller that is not inside getAction
Idle == [pc |-> "idle", name |-> EmptyStr, json |-> "none", it |-> End,
         outcome |-> "none", msg |-> EmptyStr, ptr |-> 0, held |-> {},
         got |-> 0, overlapped |-> FALSE]

\* the process as it starts: an empty registry, no static initialiser run yet
InitRegistry ==
    /\ phase = "static_init"
    /\ linked \in SUBSET Types
    /\ initialised = {}
    /\ registered = [T \in Types |-> FALSE]
    /\ actions = <<>>
    /\ instances = <<>>
    /\ last = NoCall
    /\ regCalls = [T \in Types |-> 0]
    /\ resolved = FALSE
    /\ directRegs = 0
    /\ ctorFailed = {}
    /\ callers = [c \in Callers |-> Idle]

InitFans ==
    /\ fans = <<>>
    /\ fanFrags = <<>>
    /\ lastFan = [op |-> "none"]

Init ==
    /\ InitRegistry
    /\ InitFans
    /\ plan = <<>>
    /\ todo = {}
    /\ collided = FALSE

----------------------------------------------------------------------------
(* Registry actions *)

Running == phase \in {"static_init", "main"}

Count(n) == IF n < MaxCount THEN n + 1 ELSE n

\* static inline bool registered = ActionFactory::regAction<T>(T::name);
\* the initialiser of a static runs once, before main(); an exception leaving
\* it ends the process (std::terminate)
StaticInit(T) ==
    /\ phase = "static_init"
    /\ T \in linked
    /\ T \notin initialised
    /\ LET r == regAction(actions, T, TypeName(T))
       IN /\ actions' = r.actions
          /\ registered' = [registered EXCEPT ![T] = (r.ret = "true")]
          /\ phase' = IF r.ret = "true" THEN phase ELSE "terminated"
          /\ last' = [NoCall EXCEPT !.op = "regAction", !.via = "helper",
                                    !.type = T, !.name = TypeName(T),
                                    !.outcome = r.ret]
    /\ initialised' = initialised \cup {T}
    /\ regCalls' = [regCalls EXCEPT ![T] = Count(@)]
    /\ UNCHANGED <<linked, instances, resolved, directRegs>>
    /\ UNCHANGED <<ctorFailed, fanVars, ordVars, concVars>>

\* main() starts once every static initialiser has run
EnterMain ==
    /\ phase = "static_init"
    /\ initialised = linked
    /\ phase' = "main"
    /\ last' = [NoCall EXCEPT !.op = "main"]
    /\ UNCHANGED <<linked, initialised, registered, actions, instances,
                   regCalls, resolved, directRegs>>
    /\ UNCHANGED <<ctorFailed, fanVars, ordVars, concVars>>

\* a call of the public ActionFactory::regAction<T>(name) that does not come
\* from ActionRegister; the exception of a collision goes to the caller
DirectRegAction(T, name) ==
    /\ Running
    /\ directRegs < MaxDirectRegs
    /\ LET r == regAction(actions, T, name)
       IN /\ actions' = r.actions
          /\ last' = [NoCall EXCEPT !.op = "regAction", !.via = "direct",
                                    !.type = T, !.name = name,
                                    !.outcome = r.ret]
    /\ directRegs' = directRegs + 1
    /\ UNCHANGED <<phase, linked, initialised, registered, instances,
                   regCalls, resolved>>
    /\ UNCHANGED <<ctorFailed, fanVars, ordVars, concVars>>

ActionRegisterCtor_Registers(reg, acts, calls, T) ==
    LET r == regAction(acts, T, TypeName(T))
    IN [registered |-> [reg EXCEPT ![T] = TRUE], actions |-> r.actions,
        regCalls |-> [calls EXCEPT ![T] = Count(@)], ret |-> r.ret]

\* ActionRegister() { registered = true; }
ActionRegisterCtor(reg, acts, calls, T) ==
    [registered |-> [reg EXCEPT ![T] = TRUE], actions |-> acts,
     regCalls |-> calls, ret |-> "true"]

\* ActionFactory::getAction(name, jsonObj), called from main()
GetAction(name, json) ==
    /\ phase = "main"
    /\ \E o \in getActionOutcomes(actions, name, json) :
         /\ o.outcome = "instance" => Len(instances) < MaxInstances
         /\ IF o.ctor # "none"
            THEN \* the constructor ran: its ActionRegister<T> base was built
                 LET c == ActionRegisterCtor(registered, actions, regCalls, o.ctor)
                     made == o.outcome = "instance" /\ c.ret = "true"
                     u == makeUnique(instances, o.obj)
                 IN /\ registered' = c.registered
                    /\ actions' = c.actions
                    /\ regCalls' = c.regCalls
                    /\ instances' = IF made THEN u.objs ELSE instances
                    /\ last' = [NoCall EXCEPT
                                  !.op = "getAction", !.name = name,
                                  !.json = json, !.ctor = o.ctor,
                                  !.type = IF made THEN o.obj.type ELSE "none",
                                  !.outcome = IF c.ret # "true" THEN c.ret
                                              ELSE o.outcome,
                                  !.inst = IF made THEN u.ptr ELSE 0]
                    /\ phase' = phase
                    /\ ctorFailed' = IF o.outcome = "ctor_error"
                                     THEN ctorFailed \cup {name}
                                     ELSE ctorFailed
            ELSE /\ last' = [NoCall EXCEPT !.op = "getAction", !.name = name,
                                           !.json = json, !.outcome = o.outcome,
                                           !.msg = o.msg]
                 /\ phase' = CASE o.outcome = "hang" -> "hung"
                                [] o.outcome = "crash" -> "crashed"
                                [] OTHER -> phase
                 /\ UNCHANGED <<registered, actions, regCalls, instances,
                                ctorFailed>>
    /\ resolved' = TRUE
    /\ UNCHANGED <<linked, initialised, directRegs>>
    /\ UNCHANGED <<fanVars, ordVars, concVars>>

\* a call of getName() on an action object its owner holds
GetName(i) ==
    /\ phase = "main"
    /\ i \in DOMAIN instances
    /\ last' = [NoCall EXCEPT !.op = "getName", !.inst = i,
                              !.type = instances[i].type,
                              !.name = getName(instances[i])]
    /\ UNCHANGED <<phase, linked, initialised, registered, actions, instances,
                   regCalls, resolved, directRegs>>
    /\ UNCHANGED <<ctorFailed, fanVars, ordVars, concVars>>

Next ==
    \/ \E T \in Types : StaticInit(T)
    \/ EnterMain
    \/ \E T \in Types, name \in NameUniverse : DirectRegAction(T, name)
    \/ \E name \in NameUniverse, json \in ActionJson : GetAction(name, json)
    \/ \E i \in 1..MaxInstances : GetName(i)

Spec == Init /\ [][Next]_vars

----------------------------------------------------------------------------
(* Properties of the action registry, checked under Spec *)

\* the names in a comma-joined list: the pieces between ", " separators
RECURSIVE SplitList(_, _)
SplitList(str, piece) ==
    IF str = <<>> THEN {piece}
    ELSE IF Len(str) >= 2 /\ SubSeq(str, 1, 2) = Separator
         THEN {piece} \cup SplitList(SubSeq(str, 3, Len(str)), <<>>)
         ELSE SplitList(Tail(str), Append(piece, Head(str)))

NamesIn(msg) == SplitList(msg, <<>>)

RegActionStep == last'.op = "regAction"
GetActionStep == last'.op = "getAction"

\* C1: a regAction<T>(name) call whose name is already in the registry ends
\* in the collision exception, whatever type the name was registered for and
\* whoever makes the call; it never returns true.
C1_CollisionAlwaysFails ==
    [][(RegActionStep /\ last'.name \in DOMAIN actions)
          => last'.outcome = "collision"]_vars

\* a second registration of a name for the same type was refused
C1_Witness ==
    /\ last.op = "regAction"
    /\ last.outcome = "collision"
    /\ last.name \in DOMAIN actions
    /\ actions[last.name] = createActionOf(last.type)

\* C2 (as claimed): getAction on a name that is not registered ends in the
\* unknown-action failure and the list of available actions it reports holds
\* exactly the registered names, for every registry state.
C2_MissReportsAllNames ==
    [][(GetActionStep /\ last'.name \notin DOMAIN actions)
          => /\ last'.outcome = "unsupported"
             /\ NamesIn(last'.msg) = DOMAIN actions]_vars

\* C3: getAction(n) on a registered name n runs the creation function stored
\* under n and nothing else: an object it returns has the type registered
\* under n, so never a different type registered under another name; and a
\* creation function runs only for a name that is registered.
C3_CorrectDispatch ==
    [][GetActionStep =>
          /\ last'.name \in DOMAIN actions => last'.ctor = actions[last'.name]
          /\ last'.ctor # "none" =>
                /\ last'.name \in DOMAIN actions
                /\ last'.ctor = actions[last'.name]
          /\ last'.outcome = "instance" =>
                /\ last'.inst \in DOMAIN instances'
                /\ instances'[last'.inst].type = actions[last'.name]
                /\ \A n2 \in DOMAIN actions \ {last'.name} :
                      actions[n2] # actions[last'.name]
                         => instances'[last'.inst].type # actions[n2]]_vars

\* with two names registered for two types, the second name was resolved to
\* an object of its own type
C3_Witness ==
    /\ last.op = "getAction"
    /\ last.outcome = "instance"
    /\ \E n2 \in DOMAIN actions : n2 # last.name /\ actions[n2] # actions[last.name]
    /\ instances[last.inst].type = actions[last.name]

C5_OneRegistrationPerType ==
    /\ \A T \in Types :
          /\ regCalls[T] <= 1
          /\ (phase = "main" /\ T \in linked) => regCalls[T] = 1
          /\ T \notin linked => regCalls[T] = 0
    /\ last.op = "getAction" => last.outcome # "collision"

\* two objects of one type exist and the type was registered once
C5_Witness ==
    /\ Len(instances) >= 2
    /\ instances[1].type = instances[2].type
    /\ regCalls[instances[1].type] = 1
    /\ last.op = "getAction"
    /\ last.outcome = "instance"

C7_NoEmptyName ==
    EmptyStr \notin DOMAIN actions

\* C7 (amended): regAction accepts every name that is not, character for
\* character, a name of the registry, the empty string included, and adds it
\* as a new entry; names that differ only in letter case are distinct
\* entries and do not collide.
C7_NamesCaseSensitive ==
    [][(RegActionStep /\ last'.name \notin DOMAIN actions)
          => /\ last'.outcome = "true"
             /\ DOMAIN actions' = DOMAIN actions \cup {last'.name}
             /\ actions'[last'.name] = createActionOf(last'.type)]_vars

\* "a", "A" and "" are three entries of the registry
C7_Witness ==
    /\ {Str_a, Str_A, EmptyStr} \subseteq DOMAIN actions
    /\ last.op = "regAction"
    /\ last.outcome = "true"

\* C10: an entry of the registry stays, mapped to the same creation
\* function, whatever happens next; a colliding regAction changes nothing in
\* the registry, and neither does getAction, on a hit or on a miss.
C10_RegistryStable ==
    [][/\ \A n \in DOMAIN actions :
             n \in DOMAIN actions' /\ actions'[n] = actions[n]
       /\ (RegActionStep /\ last'.outcome = "collision") => actions' = actions
       /\ GetActionStep => actions' = actions]_vars

\* a name registered for one type was registered again for another type and
\* still maps to the first
C10_Witness ==
    /\ last.op = "regAction"
    /\ last.outcome = "collision"
    /\ last.name \in DOMAIN actions
    /\ actions[last.name] # createActionOf(last.type)

\* C11 (as claimed): with nothing registered, getAction on any name ends in
\* the unknown-action failure and reports an empty list of available names.
C11_EmptyRegistryDefinedFailure ==
    [][(GetActionStep /\ DOMAIN actions = {})
          => /\ last'.outcome = "unsupported"
             /\ last'.msg = EmptyStr]_vars

\* C14: when the constructor of the type registered under a name fails,
\* getAction ends in that constructor's error, not in the unknown-action
\* failure and not in a result; no object is handed out and the registry is
\* unchanged; a resolution of a registered name with a valid fragment
\* succeeds, also after such a failure.
C14_CtorErrorPropagates ==
    [][(GetActionStep /\ last'.name \in DOMAIN actions) =>
          /\ last'.json = "malformed" =>
                /\ last'.outcome = "ctor_error"
                /\ last'.ctor = actions[last'.name]
                /\ last'.inst = 0
                /\ instances' = instances
                /\ actions' = actions
          /\ last'.json = "ok" =>
                /\ last'.outcome = "instance"
                /\ actions' = actions]_vars

\* a name whose resolution had ended in a constructor error was resolved
C14_Witness ==
    /\ last.op = "getAction"
    /\ last.outcome = "instance"
    /\ last.name \in ctorFailed

----------------------------------------------------------------------------
(* A given list of registrations, performed in any order *)

\* one regAction<T>(name) call
Registrations == [type : Types, name : NameUniverse]

Plans == UNION {[1..n -> Registrations] : n \in 0..MaxPlan}

\* the registrations of the plan are those of the process: nothing is linked
\* besides, and the order in which they run is not fixed
OrderInit ==
    /\ InitRegistry
    /\ linked = {}
    /\ InitFans
    /\ plan \in Plans
    /\ todo = DOMAIN plan
    /\ collided = FALSE

\* the next registration to run is any of those left; the exception of a
\* collision goes to its caller
PerformRegistration(i) ==
    /\ phase = "static_init"
    /\ i \in todo
    /\ LET r == regAction(actions, plan[i].type, plan[i].name)
       IN /\ actions' = r.actions
          /\ collided' = (collided \/ r.ret = "collision")
          /\ last' = [NoCall EXCEPT !.op = "regAction", !.via = "plan",
                                    !.type = plan[i].type,
                                    !.name = plan[i].name,
                                    !.outcome = r.ret, !.inst = i]
    /\ todo' = todo \ {i}
    /\ UNCHANGED plan
    /\ UNCHANGED <<phase, linked, initialised, registered, instances,
                   regCalls, resolved, directRegs, ctorFailed>>
    /\ UNCHANGED <<fanVars, concVars>>

OrderNext == \E i \in 1..MaxPlan : PerformRegistration(i)

OrderSpec == OrderInit /\ [][OrderNext]_vars

----------------------------------------------------------------------------
(* Properties of the order of registrations, checked under OrderSpec *)

DistinctNames(p) ==
    \A i, j \in DOMAIN p : p[i].name = p[j].name => i = j

\* the registry a plan with pairwise distinct names describes
PlanRegistry(p) ==
    [n \in {p[i].name : i \in DOMAIN p} |->
        createActionOf(p[CHOOSE i \in DOMAIN p : p[i].name = n].type)]

\* C12: once all registrations of a plan have run, in whatever order: if the
\* names are pairwise distinct no registration failed and the registry maps
\* each name to the creation function of its registration; if a name is
\* repeated a collision was raised.  A collision is raised only for a
\* repeated name.
C12_OrderIndependent ==
    /\ collided => ~DistinctNames(plan)
    /\ todo = {} =>
          IF DistinctNames(plan)
          THEN /\ ~collided
               /\ DOMAIN actions = DOMAIN PlanRegistry(plan)
               /\ \A n \in DOMAIN actions : actions[n] = PlanRegistry(plan)[n]
          ELSE collided

\* three registrations with distinct names have all run, the first of the
\* plan last
C12_Witness ==
    /\ Len(plan) = 3
    /\ DistinctNames(plan)
    /\ todo = {}
    /\ last.op = "regAction"
    /\ last.inst = 1
    /\ Cardinality(DOMAIN actions) = 3

----------------------------------------------------------------------------
(* Concurrent callers of getAction, after registration has ended *)

\* a caller enters ActionFactory::getAction(name, jsonObj)
CallGetAction(c, name, json) ==
    /\ phase = "main"
    /\ callers[c].pc = "idle"
    /\ callers' = [callers EXCEPT ![c] =
                      [@ EXCEPT !.pc = "called", !.name = name, !.json = json,
                                !.it = End, !.outcome = "none",
                                !.msg = EmptyStr, !.ptr = 0,
                                !.overlapped = FALSE]]
    /\ UNCHANGED <<regVars, fanVars, ordVars>>

\* auto it = actions.find(name), with no lock taken
FindStep(c) ==
    /\ phase = "main"
    /\ callers[c].pc = "called"
    /\ LET f == getActionFind(actions, callers[c].name)
       IN /\ actions' = f.actions
          /\ callers' = [callers EXCEPT ![c] =
                            [@ EXCEPT !.pc = "found", !.it = f.it]]
    /\ UNCHANGED <<phase, linked, initialised, registered, instances, last,
                   regCalls, resolved, directRegs, ctorFailed>>
    /\ UNCHANGED <<fanVars, ordVars>>

\* history: another caller is inside getAction as c leaves it
OtherInside(c) == \E d \in Callers \ {c} : callers[d].pc \in {"called", "found"}

\* the rest of getAction: the creation function the iterator points at is
\* called and its object returned, or the list of names is built and the
\* failure thrown; the ActionRegister<T> base of a new object stores true in
\* registered, the value it already has
FinishStep(c) ==
    /\ phase = "main"
    /\ callers[c].pc = "found"
    /\ \E o \in getActionFrom(actions, callers[c].it, callers[c].json) :
         /\ o.outcome = "instance" => Len(instances) < MaxInstances
         /\ IF o.ctor # "none"
            THEN LET r == ActionRegisterCtor(registered, actions, regCalls, o.ctor)
                     made == o.outcome = "instance" /\ r.ret = "true"
                     u == makeUnique(instances, o.obj)
                 IN /\ registered' = r.registered
                    /\ actions' = r.actions
                    /\ regCalls' = r.regCalls
                    /\ instances' = IF made THEN u.objs ELSE instances
                    /\ callers' = [callers EXCEPT ![c] =
                          [@ EXCEPT !.pc = "idle",
                                    !.overlapped = OtherInside(c),
                                    !.outcome = IF r.ret # "true" THEN r.ret
                                                ELSE o.outcome,
                                    !.ptr = IF made THEN u.ptr ELSE 0,
                                    !.held = IF made THEN @ \cup {u.ptr} ELSE @,
                                    !.got = IF made THEN @ + 1 ELSE @]]
                    /\ phase' = phase
            ELSE /\ callers' = [callers EXCEPT ![c] =
                          [@ EXCEPT !.pc = IF o.outcome = "unsupported"
                                           THEN "idle" ELSE "dead",
                                    !.overlapped = OtherInside(c),
                                    !.outcome = o.outcome, !.msg = o.msg]]
                 /\ phase' = CASE o.outcome = "hang" -> "hung"
                                [] o.outcome = "crash" -> "crashed"
                                [] OTHER -> phase
                 /\ UNCHANGED <<registered, actions, regCalls, instances>>
    /\ UNCHANGED <<linked, initialised, last, resolved, directRegs, ctorFailed>>
    /\ UNCHANGED <<fanVars, ordVars>>

\* registration runs single-threaded before main(); from then on the callers
\* run getAction side by side and nothing registers
ConcNext ==
    \/ \E T \in Types : StaticInit(T)
    \/ EnterMain
    \/ \E c \in Callers, name \in NameUniverse, json \in ActionJson :
          CallGetAction(c, name, json)
    \/ \E c \in Callers : FindStep(c)
    \/ \E c \in Callers : FinishStep(c)

ConcSpec == Init /\ [][ConcNext]_vars

----------------------------------------------------------------------------
(* Properties of concurrent resolution, checked under ConcSpec *)

\* C13: every successful getAction hands its caller a new object: a caller
\* holds as many distinct objects as it had successful resolutions (two
\* resolutions of one name give two objects), no object is held by two
\* callers, every object that exists is held by the caller that asked for
\* it, and the registry holds creation functions only, never an object.
C13_FreshExclusiveInstances ==
    /\ \A c \in Callers :
          /\ Cardinality(callers[c].held) = callers[c].got
          /\ callers[c].held \subseteq DOMAIN instances
    /\ \A c1, c2 \in Callers :
          c1 # c2 => callers[c1].held \cap callers[c2].held = {}
    /\ UNION {callers[c].held : c \in Callers} = DOMAIN instances
    /\ \A n \in DOMAIN actions :
          actions[n] \in {createActionOf(T) : T \in Types}

\* both callers resolved the same name and hold one object each
C13_Witness ==
    /\ callers["c1"].outcome = "instance"
    /\ callers["c2"].outcome = "instance"
    /\ callers["c1"].pc = "idle"
    /\ callers["c2"].pc = "idle"
    /\ callers["c1"].name = callers["c2"].name
    /\ callers["c1"].ptr # callers["c2"].ptr
    /\ instances[callers["c1"].ptr] = instances[callers["c2"].ptr]

\* what a call that has returned gave its caller is what the call gives on
\* its own on the registry as it stands
ReturnedAsAlone(c) ==
    LET r == callers[c]
        alone == getActionOutcomes(actions, r.name, r.json)
    IN (r.pc = "idle" /\ r.outcome # "none") =>
          /\ \E o \in alone : o.outcome = r.outcome /\ o.msg = r.msg
          /\ r.name \in DOMAIN actions =>
                IF r.json = "ok"
                THEN /\ r.outcome = "instance"
                     /\ instances[r.ptr].type = actions[r.name]
                ELSE r.outcome = "ctor_error"
          /\ (r.name \notin DOMAIN actions /\ DOMAIN actions # {}) =>
                /\ r.outcome = "unsupported"
                /\ NamesIn(r.msg) = DOMAIN actions

----------------------------------------------------------------------------
(* Fan: JSON fragments *)

Absent == [kind |-> "absent"]
JNum == [kind |-> "number", val |-> 0]
JStr(str) == [kind |-> "string", val |-> str]
JArr(elems) == [kind |-> "array", val |-> elems]

Profiles == {"P1", "P2", "P3"}

\* the fragments a Fan is built from: each key absent, of the wrong type or
\* well formed
FanFragments ==
    [name : {Absent, JStr("fan0")},
     zone : {Absent, JNum, JStr("zone1")},
     sensors : {Absent, JNum, JArr(<<JNum>>), JArr(<<JStr("fan0_tach")>>)},
     interface : {Absent, JNum, JStr("xyz.Target")},
     profiles : {Absent, JArr(<<JNum>>), JArr(<<>>),
                 JArr(<<JStr("P1"), JStr("P2")>>)}]

\* json::get<std::string>() on the value of a key
IsString(v) == v.kind = "string"

\* an array whose elements all convert with get<std::string>()
IsStringArray(v) ==
    v.kind = "array" /\ \A i \in DOMAIN v.val : IsString(v.val[i])

\* for (const auto& e : jsonObj[key]) list.emplace_back(e.get<std::string>())
RECURSIVE StringsOf(_)
StringsOf(elems) ==
    IF elems = <<>> THEN <<>>
    ELSE <<Head(elems).val>> \o StringsOf(Tail(elems))

----------------------------------------------------------------------------
(* Fan *)

\* Fan(bus, jsonObj): the base part takes the mandatory name, then the
\* optional profiles, then zone, sensors and interface, each mandatory; the
\* first key that is missing or of the wrong type ends the construction with
\* an exception and there is no object
FanCtor(frag) ==
    IF ~IsString(frag.name) THEN [ok |-> FALSE, err |-> "name"]
    ELSE IF frag.profiles # Absent /\ ~IsStringArray(frag.profiles)
    THEN [ok |-> FALSE, err |-> "profiles"]
    ELSE IF ~IsString(frag.zone) THEN [ok |-> FALSE, err |-> "zone"]
    ELSE IF ~IsStringArray(frag.sensors) THEN [ok |-> FALSE, err |-> "sensors"]
    ELSE IF ~IsString(frag.interface) THEN [ok |-> FALSE, err |-> "interface"]
    ELSE [ok |-> TRUE, err |-> "none",
          fan |-> [name |-> frag.name.val,
                   profiles |-> IF frag.profiles = Absent THEN <<>>
                                ELSE StringsOf(frag.profiles.val),
                   zone |-> frag.zone.val,
                   sensors |-> StringsOf(frag.sensors.val),
                   interface |-> frag.interface.val]]

getProfiles_Sensors(fan) == fan.sensors

\* getProfiles()
getProfiles(fan) == fan.profiles

getZone_Interface(fan) == fan.interface

\* getZone()
getZone(fan) == fan.zone

\* getSensors()
getSensors(fan) == fan.sensors

\* getInterface()
getInterface(fan) == fan.interface

\* profile matching: an entity with no profiles is always active, otherwise it
\* is active when one of its profiles is among the active ones
RECURSIVE AnyActive(_, _)
AnyActive(profiles, active) ==
    IF profiles = <<>> THEN FALSE
    ELSE IF Head(profiles) \in active THEN TRUE
    ELSE AnyActive(Tail(profiles), active)

IsActive(profiles, active) ==
    IF Len(profiles) = 0 THEN TRUE ELSE AnyActive(profiles, active)

----------------------------------------------------------------------------
(* Fan actions *)

\* the configuration loader builds a Fan from a fragment
FanConstruct(frag) ==
    LET r == FanCtor(frag)
    IN /\ r.ok => Len(fans) < MaxFans
       /\ fans' = IF r.ok THEN Append(fans, r.fan) ELSE fans
       /\ fanFrags' = IF r.ok THEN Append(fanFrags, frag) ELSE fanFrags
       /\ lastFan' = [op |-> "construct", frag |-> frag, ok |-> r.ok,
                      err |-> r.err]
       /\ UNCHANGED <<regVars, ordVars, concVars>>

\* a collaborator reads a Fan through its accessors
FanRead(i) ==
    /\ i \in DOMAIN fans
    /\ lastFan' = [op |-> "read", idx |-> i,
                   zone |-> getZone(fans[i]),
                   sensors |-> getSensors(fans[i]),
                   interface |-> getInterface(fans[i]),
                   profiles |-> getProfiles(fans[i])]
    /\ UNCHANGED <<fans, fanFrags>>
    /\ UNCHANGED <<regVars, ordVars, concVars>>

\* the zone engine asks whether a Fan takes part under the active profiles
FanIsActive(i, active) ==
    /\ i \in DOMAIN fans
    /\ lastFan' = [op |-> "isActive", idx |-> i, active |-> active,
                   result |-> IsActive(getProfiles(fans[i]), active)]
    /\ UNCHANGED <<fans, fanFrags>>
    /\ UNCHANGED <<regVars, ordVars, concVars>>

FanNext ==
    \/ \E frag \in FanFragments : FanConstruct(frag)
    \/ \E i \in 1..MaxFans : FanRead(i)
    \/ \E i \in 1..MaxFans, active \in SUBSET Profiles : FanIsActive(i, active)

\* the Fan entity on its own: the registry stays as the process start left it
FanInit == Init /\ linked = Types

FanSpec == FanInit /\ [][FanNext]_vars

----------------------------------------------------------------------------
(* Properties of Fan, checked under FanSpec *)

\* the profile names a fragment lists
FragProfiles(frag) ==
    IF frag.profiles = Absent THEN {}
    ELSE {frag.profiles.val[i].val : i \in DOMAIN frag.profiles.val}

\* C8: a Fan is active under a set of active profiles exactly when the
\* fragment it was built from lists no profile or lists one of the active
\* ones; a Fan built from a fragment without a profiles key has an empty
\* profile list and is active under every set, the empty set included.
C8_ProfileMembership ==
    /\ lastFan.op = "isActive" =>
          (lastFan.result <=>
              (\/ FragProfiles(fanFrags[lastFan.idx]) = {}
               \/ FragProfiles(fanFrags[lastFan.idx]) \cap lastFan.active # {}))
    /\ \A i \in DOMAIN fans :
          fanFrags[i].profiles = Absent =>
             /\ getProfiles(fans[i]) = <<>>
             /\ \A active \in SUBSET Profiles :
                   IsActive(getProfiles(fans[i]), active)

\* a Fan with profiles P1, P2 was found inactive when only P3 is active
C8_Witness ==
    /\ lastFan.op = "isActive"
    /\ FragProfiles(fanFrags[lastFan.idx]) = {"P1", "P2"}
    /\ lastFan.active = {"P3"}
    /\ ~lastFan.result

ShapesOk(frag) ==
    /\ IsString(frag.zone)
    /\ IsStringArray(frag.sensors)
    /\ IsString(frag.interface)

====
